---- MODULE Spec2Model ----
(***************************************************************************)
(* Model of adsys_mount (internal/policies/mount/adsys_mount/src/lib.rs):  *)
(* parsing of the mounts file, dispatch of one asynchronous mount per      *)
(* entry, the authentication callback of each mount operation, the         *)
(* completion callback attached to the glib channel, and the evaluation    *)
(* of the collected errors.                                                *)
(*                                                                         *)
(* Text is a sequence of one-character strings.                            *)
(***************************************************************************)
EXTENDS Integers, Sequences, FiniteSets, TLC

VARIABLES
    file,            \* the mounts file: [readable, content]
    env,             \* the KRB5CCNAME slot of the process environment
    pc,              \* position of handle_user_mounts
    parsed_entries,  \* Vec<MountEntry> returned by parse_entries
    next_entry,      \* index of the next entry the dispatch loop hands to handle_mount
    ops,             \* the gio::MountOperation of every dispatched entry, in dispatch order
    channel,         \* glib channel: messages sent and not yet received
    rx_alive,        \* the receiving side of the channel still exists
    mounts_left,     \* the countdown captured by the closure attached to the receiver
    errors,          \* Mutex<Vec<MountError>>
    events,          \* the messages handed to user_mount_cb so far, in order
    returns,         \* the glib::Continue value returned by each run of user_mount_cb
    quits,           \* for each call of main_loop.quit(): the number of the event that made it
    loop_created,    \* glib::MainLoop::new has been called
    result           \* what handle_user_mounts returned, "none" while it runs

vars == <<file, env, pc, parsed_entries, next_entry, ops, channel, rx_alive,
          mounts_left, errors, events, returns, quits, loop_created, result>>

(***************************************************************************)
(* Bounds                                                                  *)
(***************************************************************************)
MaxPieces == 4       \* pieces of text in a mounts file handed to parse_entries alone
MaxEntries == 3      \* lines of a mounts file that goes through the whole orchestration
MaxChallenges == 3   \* authentication challenges the provider raises in one run
MaxEvents == 3       \* messages handed to user_mount_cb when it is driven on its own

(***************************************************************************)
(* Text                                                                    *)
(***************************************************************************)
LF == "\n"
CR == "\r"

\* the literal given to strip_prefix
Marker == <<"[", "a", "n", "o", "n", "y", "m", "o", "u", "s", "]">>

StartsWith(s, p) == Len(s) >= Len(p) /\ SubSeq(s, 1, Len(p)) = p

\* str::strip_prefix: None when the prefix is absent, else the rest (removed once)
strip_prefix(s, p) ==
    IF StartsWith(s, p)
    THEN [some |-> TRUE, rest |-> SubSeq(s, Len(p) + 1, Len(s))]
    ELSE [some |-> FALSE, rest |-> <<>>]

\* position of the first line feed of s, 0 when there is none
FirstLF(s) ==
    IF \E i \in 1..Len(s) : s[i] = LF
    THEN CHOOSE i \in 1..Len(s) : s[i] = LF /\ \A j \in 1..(i - 1) : s[j] # LF
    ELSE 0

\* str::split_inclusive('\n'): every piece keeps its terminator, no empty last piece
RECURSIVE split_inclusive(_)
split_inclusive(s) ==
    IF s = <<>> THEN <<>>
    ELSE LET k == FirstLF(s) IN
         IF k = 0 THEN <<s>>
         ELSE <<SubSeq(s, 1, k)>> \o split_inclusive(SubSeq(s, k + 1, Len(s)))

\* the map of str::lines: drop a final "\n", and a "\r" right before it; a
\* "\r" that no "\n" follows is kept
LinesMap(line) ==
    IF Len(line) = 0 \/ line[Len(line)] # LF THEN line
    ELSE LET l == SubSeq(line, 1, Len(line) - 1) IN
         IF Len(l) = 0 \/ l[Len(l)] # CR THEN l
         ELSE SubSeq(l, 1, Len(l) - 1)

\* str::lines
lines(s) == LET ps == split_inclusive(s) IN [i \in 1..Len(ps) |-> LinesMap(ps[i])]

(***************************************************************************)
(* parse_entries                                                           *)
(***************************************************************************)
\* variant: no line is skipped
is_empty_never(p) == FALSE

\* the test that makes the loop skip a line
is_empty(p) == Len(p) = 0

\* the MountEntry pushed for one line
MountEntry(p) ==
    LET s == strip_prefix(p, Marker) IN
    IF s.some
    THEN [mount_path |-> s.rest, is_anonymous |-> TRUE]
    ELSE [mount_path |-> p, is_anonymous |-> FALSE]

\* the loop over content.lines()
RECURSIVE ParseLines(_)
ParseLines(ls) ==
    IF ls = <<>> THEN <<>>
    ELSE IF is_empty(Head(ls)) THEN ParseLines(Tail(ls))
    ELSE <<MountEntry(Head(ls))>> \o ParseLines(Tail(ls))

\* variant: a read error is taken for an empty file
parse_entries_swallow(f) == [ok |-> TRUE, entries |-> ParseLines(lines(f.content))]

\* fs::read_to_string fails or gives the content; the result is Err or Ok(entries)
parse_entries(f) ==
    IF ~f.readable
    THEN [ok |-> FALSE, entries |-> <<>>]
    ELSE [ok |-> TRUE, entries |-> ParseLines(lines(f.content))]

(***************************************************************************)
(* The inputs                                                              *)
(***************************************************************************)
RECURSIVE Flatten(_)
Flatten(ss) == IF ss = <<>> THEN <<>> ELSE Head(ss) \o Flatten(Tail(ss))

SeqsUpTo(S, n) == UNION {[1..k -> S] : k \in 0..n}

\* the pieces the contents given to parse_entries alone are built from
Pieces == {Marker, <<"s">>, <<"[">>, <<LF>>, <<CR>>}

ParseFiles ==
    {[readable |-> TRUE, content |-> Flatten(ps)] : ps \in SeqsUpTo(Pieces, MaxPieces)}
    \cup {[readable |-> FALSE, content |-> <<>>]}

\* the lines of the files that go through the whole orchestration
OrchLines == {<<"a", LF>>, Marker \o <<"b", LF>>, <<LF>>}

OrchFiles ==
    {[readable |-> TRUE, content |-> Flatten(ls)] : ls \in SeqsUpTo(OrchLines, MaxEntries)}
    \cup {[readable |-> FALSE, content |-> <<>>]}

\* KRB5CCNAME: absent, or present with a value that is or is not valid Unicode
EnvValues == {[present |-> FALSE, unicode |-> FALSE],
              [present |-> TRUE, unicode |-> TRUE],
              [present |-> TRUE, unicode |-> FALSE]}

\* gio::AskPasswordFlags, a bit set
FlagBits == {"NEED_PASSWORD", "ANONYMOUS_SUPPORTED"}
AskPasswordFlags == SUBSET FlagBits

\* what the provider hands to the completion handler: Ok(()) or a glib::Error
ProviderResults == {[tag |-> "Ok", val |-> "Unit"],
                    [tag |-> "Err", val |-> "AlreadyMounted"],
                    [tag |-> "Err", val |-> "PermissionDenied"]}

(***************************************************************************)
(* ask_password_cb                                                         *)
(***************************************************************************)
\* std::env::var(..).is_ok(): set and valid Unicode
env_var_is_ok(e) == e.present /\ e.unicode

\* first branch of ask_password_cb is taken
AnonymousBranch(op, flags) == op.is_anonymous /\ "ANONYMOUS_SUPPORTED" \in flags

\* variant: the "state" data is one slot shared by all the operations
ask_password_replies_shared(op, flags, e) ==
    IF AnonymousBranch(op, flags)
    THEN IF \E j \in 1..Len(ops) : ops[j].state = "Asked"
         THEN <<"Aborted">>
         ELSE <<"Handled">>
    ELSE IF env_var_is_ok(e) THEN <<"Handled">> ELSE <<"Aborted">>

\* the replies one invocation of ask_password_cb issues on mount_op, in order
ask_password_replies(op, flags, e) ==
    IF AnonymousBranch(op, flags)
    THEN IF op.state # "None"
         THEN IF op.state = "Asked" THEN <<"Aborted">> ELSE <<>>
         ELSE <<"Handled">>
    ELSE IF env_var_is_ok(e) THEN <<"Handled">> ELSE <<"Aborted">>

\* variant: the "state" data is set to Ok(Done)
ask_password_state_done(op, flags) ==
    IF AnonymousBranch(op, flags) /\ op.state = "None" THEN "Done" ELSE op.state

\* variant: the "state" data is never set
ask_password_state_unset(op, flags) == op.state

\* the "state" data of mount_op after one invocation
ask_password_state(op, flags) ==
    IF AnonymousBranch(op, flags) /\ op.state = "None" THEN "Asked" ELSE op.state

(***************************************************************************)
(* user_mount_cb and the evaluation of the errors                          *)
(***************************************************************************)
\* variant: every status other than Done is recorded as an error
record_status_strict(errs, msg) ==
    IF msg.status.val # "Done"
    THEN Append(errs, [path |-> msg.path, error |-> msg.status.val])
    ELSE errs

\* variant: the record is put in front of the list
record_status_front(errs, msg) ==
    IF msg.status.tag = "Err"
    THEN <<[path |-> msg.path, error |-> msg.status.val]>> \o errs
    ELSE errs

\* the match on msg.status
record_status(errs, msg) ==
    IF msg.status.tag = "Err"
    THEN Append(errs, [path |-> msg.path, error |-> msg.status.val])
    ELSE errs

\* variant: the loop is quit while one mount is still awaited
no_mounts_left_early(left) == left <= 1

\* variant: the loop is never quit
no_mounts_left_never(left) == FALSE

\* the test that makes the callback quit the main loop
no_mounts_left(left) == left = 0

\* variant: the source is never removed
continue_value_always(left) == TRUE

\* variant: the source is removed after the first event
continue_value_never(left) == FALSE

\* the value wrapped in glib::Continue
continue_value(left) == left # 0

error_matches(e, kind) == e.error = kind

\* variant: only the first recorded error is looked at
evaluate_first_only(errs) ==
    IF errs = <<>> THEN "Ok"
    ELSE IF ~error_matches(errs[1], "AlreadyMounted")
         THEN "Ok"
         ELSE "MountError"

\* variant: without the early return on an empty error list
evaluate_no_early_return(errs) ==
    IF \E i \in 1..Len(errs) : ~error_matches(errs[i], "AlreadyMounted")
    THEN "Ok"
    ELSE "MountError"

\* the result of handle_user_mounts once g_loop.run() has returned
evaluate(errs) ==
    IF errs = <<>> THEN "Ok"
    ELSE IF \E i \in 1..Len(errs) : ~error_matches(errs[i], "AlreadyMounted")
         THEN "Ok"
         ELSE "MountError"

(***************************************************************************)
(* State machine                                                           *)
(***************************************************************************)
InitRest ==
    /\ pc = "start"
    /\ parsed_entries = <<>>
    /\ next_entry = 1
    /\ ops = <<>>
    /\ channel = <<>>
    /\ rx_alive = FALSE
    /\ mounts_left = 0
    /\ errors = <<>>
    /\ events = <<>>
    /\ returns = <<>>
    /\ quits = <<>>
    /\ loop_created = FALSE
    /\ result = "none"

Init ==
    /\ file \in OrchFiles
    /\ env \in EnvValues
    /\ InitRest

\* variant: no early return on an empty list
nothing_to_mount_never(entries) == FALSE

\* the test of the early return of handle_user_mounts
nothing_to_mount(entries) == entries = <<>>

\* handle_user_mounts up to the dispatch loop: parse, the two early returns,
\* the channel and the countdown
ParseStep ==
    /\ pc = "start"
    /\ LET r == parse_entries(file) IN
       IF ~r.ok
       THEN /\ result' = "ParseError"
            /\ pc' = "done"
            /\ UNCHANGED <<parsed_entries, mounts_left, rx_alive>>
       ELSE /\ parsed_entries' = r.entries
            /\ IF nothing_to_mount(r.entries)
               THEN /\ result' = "Ok"
                    /\ pc' = "done"
                    /\ UNCHANGED <<mounts_left, rx_alive>>
               ELSE /\ rx_alive' = TRUE
                    /\ mounts_left' = Len(r.entries)
                    /\ pc' = "dispatch"
                    /\ UNCHANGED result
    /\ UNCHANGED <<file, env, next_entry, ops, channel, errors, events, returns,
                   quits, loop_created>>

\* a mount the provider has not completed yet
Pending == [tag |-> "Pending", val |-> "Unit"]

\* one turn of the dispatch loop: handle_mount creates the operation and asks
\* the provider to mount; it returns without waiting
handle_mount ==
    /\ pc = "dispatch"
    /\ next_entry <= Len(parsed_entries)
    /\ ops' = Append(ops, [mount_path |-> parsed_entries[next_entry].mount_path,
                           is_anonymous |-> parsed_entries[next_entry].is_anonymous,
                           state |-> "None",
                           challenges |-> <<>>,
                           completion |-> Pending])
    /\ next_entry' = next_entry + 1
    /\ UNCHANGED <<file, env, pc, parsed_entries, channel, rx_alive, mounts_left,
                   errors, events, returns, quits, loop_created, result>>

\* after the dispatch loop: the main loop, the error list, the attached
\* receiver, and the call of g_loop.run()
RunLoop ==
    /\ pc = "dispatch"
    /\ next_entry > Len(parsed_entries)
    /\ loop_created' = TRUE
    /\ errors' = <<>>
    /\ pc' = "run"
    /\ UNCHANGED <<file, env, parsed_entries, next_entry, ops, channel, rx_alive,
                   mounts_left, events, returns, quits, result>>

TotalChallenges == LET RECURSIVE Sum(_)
                       Sum(i) == IF i = 0 THEN 0 ELSE Len(ops[i].challenges) + Sum(i - 1)
                   IN Sum(Len(ops))

\* the provider raises a challenge on a mount that has not completed
ask_password_cb ==
    /\ TotalChallenges < MaxChallenges
    /\ \E i \in 1..Len(ops) : \E flags \in AskPasswordFlags :
         /\ ops[i].completion = Pending
         /\ ops' = [ops EXCEPT
                ![i].state = ask_password_state(ops[i], flags),
                ![i].challenges = Append(@, [flags |-> flags,
                                             state_before |-> ops[i].state,
                                             replies |-> ask_password_replies(ops[i], flags, env)])]
    /\ UNCHANGED <<file, env, pc, parsed_entries, next_entry, channel, rx_alive,
                   mounts_left, errors, events, returns, quits, loop_created, result>>

\* the status the completion handler puts in the message
msg_status(r) == IF r.tag = "Ok" THEN [tag |-> "Ok", val |-> "Done"] ELSE r

\* the provider completes a mount: the completion handler sends the message
\* (op tags the message with the operation it comes from; no code reads it)
mount_handled_cb ==
    /\ \E i \in 1..Len(ops) : \E r \in ProviderResults :
         /\ ops[i].completion = Pending
         /\ ops' = [ops EXCEPT ![i].completion = r]
         /\ channel' = IF rx_alive
                       THEN Append(channel, [path |-> ops[i].mount_path,
                                             status |-> msg_status(r),
                                             op |-> i])
                       ELSE channel
    /\ UNCHANGED <<file, env, pc, parsed_entries, next_entry, rx_alive, mounts_left,
                   errors, events, returns, quits, loop_created, result>>

\* variant: the Err arm returns before the decrement
user_mount_cb_err_returns ==
    /\ pc = "run"
    /\ rx_alive
    /\ quits = <<>>
    /\ channel # <<>>
    /\ errors' = record_status(errors, Head(channel))
    /\ channel' = Tail(channel)
    /\ events' = Append(events, Head(channel))
    /\ LET left == IF Head(channel).status.tag = "Err" THEN mounts_left ELSE mounts_left - 1 IN
       /\ mounts_left' = left
       /\ quits' = IF no_mounts_left(left) THEN Append(quits, Len(returns) + 1) ELSE quits
       /\ returns' = Append(returns, continue_value(left))
       /\ rx_alive' = continue_value(left)
    /\ UNCHANGED <<file, env, pc, parsed_entries, next_entry, ops, loop_created, result>>

\* the running main loop hands the next message to the attached closure
user_mount_cb ==
    /\ pc = "run"
    /\ rx_alive
    /\ quits = <<>>
    /\ channel # <<>>
    /\ errors' = record_status(errors, Head(channel))
    /\ channel' = Tail(channel)
    /\ events' = Append(events, Head(channel))
    /\ mounts_left' = mounts_left - 1
    /\ quits' = IF no_mounts_left(mounts_left - 1)
                THEN Append(quits, Len(returns) + 1) ELSE quits
    /\ returns' = Append(returns, continue_value(mounts_left - 1))
    /\ rx_alive' = continue_value(mounts_left - 1)
    /\ UNCHANGED <<file, env, pc, parsed_entries, next_entry, ops, loop_created, result>>

\* g_loop.run() returns after quit; the errors decide the result
Evaluate ==
    /\ pc = "run"
    /\ quits # <<>>
    /\ result' = evaluate(errors)
    /\ pc' = "done"
    /\ UNCHANGED <<file, env, parsed_entries, next_entry, ops, channel, rx_alive,
                   mounts_left, errors, events, returns, quits, loop_created>>

Next ==
    \/ ParseStep
    \/ handle_mount
    \/ RunLoop
    \/ mount_handled_cb
    \/ user_mount_cb
    \/ Evaluate

Spec == Init /\ [][Next]_vars

\* once the entries are parsed: the dispatch loop runs on, the running main
\* loop dispatches the attached source, g_loop.run() returns after quit, and
\* the provider fires the completion handler of every mount; no step of Next
\* reads the environment
InitFair ==
    /\ file \in OrchFiles
    /\ env = [present |-> TRUE, unicode |-> TRUE]
    /\ InitRest

SpecFair ==
    /\ InitFair
    /\ [][Next]_vars
    /\ WF_vars(handle_mount)
    /\ WF_vars(RunLoop)
    /\ WF_vars(mount_handled_cb)
    /\ WF_vars(user_mount_cb)
    /\ WF_vars(Evaluate)

\* parse_entries on its own, over every content built from the pieces
InitParse ==
    /\ file \in ParseFiles
    /\ env \in {[present |-> FALSE, unicode |-> FALSE]}
    /\ InitRest

NextParse == ParseStep

SpecParse == InitParse /\ [][NextParse]_vars

\* every value of MountResult: Ok(Done), Ok(Asked), or a glib::Error
MountResults == {[tag |-> "Ok", val |-> "Done"],
                 [tag |-> "Ok", val |-> "Asked"],
                 [tag |-> "Err", val |-> "AlreadyMounted"],
                 [tag |-> "Err", val |-> "PermissionDenied"]}

\* every Msg; op 0 marks a message that no dispatched operation sent
Msgs == {[path |-> <<"a">>, status |-> st, op |-> 0] : st \in MountResults}

\* user_mount_cb on its own: the running loop holds a countdown equal to the
\* number of messages in the channel, and the messages are any the Msg type
\* allows, Ok(Asked) included
InitCb ==
    /\ file = [readable |-> TRUE, content |-> <<>>]
    /\ env = [present |-> FALSE, unicode |-> FALSE]
    /\ pc = "run"
    /\ parsed_entries = <<>>
    /\ next_entry = 1
    /\ ops = <<>>
    /\ channel \in SeqsUpTo(Msgs, MaxEvents) \ {<<>>}
    /\ rx_alive = TRUE
    /\ mounts_left = Len(channel)
    /\ errors = <<>>
    /\ events = <<>>
    /\ returns = <<>>
    /\ quits = <<>>
    /\ loop_created = TRUE
    /\ result = "none"

NextCb ==
    \/ user_mount_cb
    \/ Evaluate

SpecCb == InitCb /\ [][NextCb]_vars

\* the authentication callback on its own: the operations are dispatched and
\* the provider raises challenges on them, in any order; ask_password_cb and
\* the completion path share no state
NextAuth ==
    \/ ParseStep
    \/ handle_mount
    \/ RunLoop
    \/ ask_password_cb

SpecAuth == Init /\ [][NextAuth]_vars

(***************************************************************************)
(* Properties                                                              *)
(***************************************************************************)
N == Len(parsed_entries)

Completed(i) == ops[i].completion # Pending
IsErr(i) == ops[i].completion.tag = "Err"
IsAlreadyMounted(i) == IsErr(i) /\ ops[i].completion.val = "AlreadyMounted"
Returned == pc = "done"
Dispatched == 1..Len(ops)

\* C1: a run with at least one dispatched entry, in which at least one
\* completion is an error and every error completion is "already mounted",
\* returns Ok.
C1_AlreadyMountedIsSuccess ==
    (/\ Returned
     /\ Len(ops) >= 1
     /\ \E i \in Dispatched : IsErr(i)
     /\ \A i \in Dispatched : IsErr(i) => IsAlreadyMounted(i))
    => result = "Ok"

\* C2: a run in which at least one completion is an error of a kind other
\* than "already mounted" returns MountError, whatever the other completions.
C2_OtherErrorIsMountError ==
    (/\ Returned
     /\ \E i \in Dispatched : IsErr(i) /\ ~IsAlreadyMounted(i))
    => result = "MountError"

\* C3: when every dispatched mount completes with Done, the error list is
\* empty when the loop ends and handle_user_mounts returns Ok.
C3_AllDoneIsSuccess ==
    (/\ Returned
     /\ Len(ops) >= 1
     /\ \A i \in Dispatched : ops[i].completion.tag = "Ok")
    => (errors = <<>> /\ result = "Ok")

C3_Witness ==
    /\ Returned
    /\ Len(ops) = MaxEntries
    /\ \A i \in Dispatched : ops[i].completion.tag = "Ok"
    /\ result = "Ok"

\* C4: with N >= 1 entries, user_mount_cb runs for exactly N events, the loop
\* is quit exactly once, by the N-th event and by no earlier one (the
\* countdown is then 0), the callback returns Continue(false) for the N-th
\* event and Continue(true) for every earlier one, and handle_user_mounts has
\* not returned before.
C4_ExactlyNEventsOneQuit ==
    N >= 1 =>
        /\ Len(returns) <= N
        /\ \A k \in 1..Len(returns) : returns[k] = (k < N)
        /\ quits = (IF Len(returns) = N THEN <<N>> ELSE <<>>)
        /\ quits # <<>> => mounts_left = 0
        /\ Returned => Len(returns) = N

C4_Witness ==
    /\ Returned
    /\ N = MaxEntries
    /\ returns = [k \in 1..N |-> k < N]
    /\ quits = <<N>>

\* the challenges of operation i that took the anonymous branch
AnonymousChallenges(i) ==
    {k \in 1..Len(ops[i].challenges) : "ANONYMOUS_SUPPORTED" \in ops[i].challenges[k].flags}

\* C5: on an operation of an anonymous entry whose challenges all carry the
\* anonymous-supported flag, the first challenge finds the state unset, is
\* answered "handled" and sets the state to Asked; every later one finds
\* Asked and is answered "aborted"; and whatever the flags, at most one
\* "handled" reply is issued for an anonymous-supported challenge.
C5_AnonymousOneShot ==
    \A i \in Dispatched :
        ops[i].is_anonymous =>
            LET cs == ops[i].challenges IN
            /\ (AnonymousChallenges(i) = 1..Len(cs)) =>
                  /\ \A k \in 1..Len(cs) :
                        /\ cs[k].replies = (IF k = 1 THEN <<"Handled">> ELSE <<"Aborted">>)
                        /\ cs[k].state_before = (IF k = 1 THEN "None" ELSE "Asked")
                  /\ Len(cs) >= 1 => ops[i].state = "Asked"
            /\ Cardinality({k \in AnonymousChallenges(i) : cs[k].replies = <<"Handled">>}) <= 1
            /\ \A k \in 1..Len(cs) :
                  cs[k].state_before = "Asked" =>
                      /\ ops[i].state = "Asked"
                      /\ \A j \in k..Len(cs) : cs[j].state_before = "Asked"

C5_Witness ==
    \E i \in Dispatched :
        /\ ops[i].is_anonymous
        /\ Len(ops[i].challenges) = MaxChallenges
        /\ AnonymousChallenges(i) = 1..MaxChallenges
        /\ ops[i].challenges[1].replies = <<"Handled">>
        /\ ops[i].challenges[2].replies = <<"Aborted">>

\* C6: a challenge on an operation of a non-anonymous entry is answered
\* "handled" if KRB5CCNAME is present in the environment and "aborted" if it
\* is absent, whatever its value, the flags and the earlier challenges.
C6_KerberosPresenceDecides ==
    \A i \in Dispatched :
        ~ops[i].is_anonymous =>
            \A k \in 1..Len(ops[i].challenges) :
                ops[i].challenges[k].replies =
                    (IF env.present THEN <<"Handled">> ELSE <<"Aborted">>)

\* C7: when the parsed list is empty, handle_user_mounts returns Ok, no mount
\* is dispatched, and the main loop is neither created nor run: no event is
\* consumed and no quit is signalled.
C7_EmptyListIsSuccess ==
    (pc # "start" /\ file.readable /\ parsed_entries = <<>>) =>
        /\ Returned
        /\ result = "Ok"
        /\ ops = <<>>
        /\ ~loop_created
        /\ channel = <<>>
        /\ returns = <<>>
        /\ quits = <<>>

C7_Witness ==
    /\ Returned
    /\ file.readable
    /\ file.content # <<>>
    /\ parsed_entries = <<>>
    /\ result = "Ok"
    /\ ops = <<>>

\* C8: when the mounts file cannot be read, handle_user_mounts returns
\* ParseError and no state of the run has a dispatched mount or a main loop.
C8_ReadFailureIsParseError ==
    ~file.readable =>
        /\ ops = <<>>
        /\ ~loop_created
        /\ channel = <<>>
        /\ result = (IF pc = "start" THEN "none" ELSE "ParseError")
        /\ pc \in {"start", "done"}

C8_Witness ==
    /\ ~file.readable
    /\ Returned
    /\ result = "ParseError"
    /\ ops = <<>>

\* the positions of the line feeds of text c, and the k-th of them
LineFeeds(c) == {i \in 1..Len(c) : c[i] = LF}
NthLineFeed(c, k) ==
    CHOOSE i \in LineFeeds(c) : Cardinality({j \in LineFeeds(c) : j <= i}) = k

\* the number of lines of c: one per line feed, and the unterminated rest
NumLines(c) ==
    Cardinality(LineFeeds(c)) + (IF Len(c) > 0 /\ c[Len(c)] # LF THEN 1 ELSE 0)

\* the k-th line of c, without its terminator ("\n" or "\r\n")
TextLine(c, k) ==
    LET first == IF k = 1 THEN 1 ELSE NthLineFeed(c, k - 1) + 1
        terminated == k <= Cardinality(LineFeeds(c))
        lf == IF terminated THEN NthLineFeed(c, k) ELSE Len(c) + 1
        last == IF terminated /\ lf - 1 >= first /\ c[lf - 1] = CR THEN lf - 2 ELSE lf - 1
    IN [j \in 1..(last - first + 1) |-> c[first + j - 1]]

HasMarker(l) == Len(l) >= Len(Marker) /\ \A j \in 1..Len(Marker) : l[j] = Marker[j]

\* the entry the format gives to a non-empty line
EntryOfLine(l) ==
    IF HasMarker(l)
    THEN [mount_path |-> [j \in 1..(Len(l) - Len(Marker)) |-> l[j + Len(Marker)]],
          is_anonymous |-> TRUE]
    ELSE [mount_path |-> l, is_anonymous |-> FALSE]

NonEmptyLines(c) == {k \in 1..NumLines(c) : TextLine(c, k) # <<>>}

\* C9: parse_entries returns one MountEntry per non-empty line, in the order
\* of the lines (a line ends at "\n" or "\r\n"): a line that starts with
\* "[anonymous]" gives is_anonymous = true and the line without that prefix,
\* removed once; any other line gives is_anonymous = false and the whole
\* line; empty lines give nothing.
C9_OneEntryPerNonEmptyLine ==
    (pc # "start" /\ file.readable) =>
        LET c == file.content
            ks == NonEmptyLines(c)
        IN /\ Len(parsed_entries) = Cardinality(ks)
           /\ \A k \in ks :
                 parsed_entries[Cardinality({j \in ks : j <= k})] = EntryOfLine(TextLine(c, k))

C9_Witness ==
    /\ pc # "start"
    /\ file.readable
    /\ NumLines(file.content) > Len(parsed_entries)
    /\ \E k \in 1..Len(parsed_entries) :
          parsed_entries[k].is_anonymous /\ parsed_entries[k].mount_path # <<>>
    /\ \E i \in 1..(Len(file.content) - 1) :
          file.content[i] = CR /\ file.content[i + 1] = LF

\* C10: handle_user_mounts returns MountError only when the event of every
\* dispatched entry has been processed (mounts_left = 0); while an error is
\* recorded and events are still awaited, the loop is not quit, the receiver
\* stays attached and nothing is returned.
C10_MountErrorOnlyAfterAll ==
    /\ result = "MountError" =>
          /\ mounts_left = 0
          /\ Len(ops) = N
          /\ Len(returns) = N
          /\ \A i \in Dispatched : Completed(i)
          /\ channel = <<>>
    /\ (errors # <<>> /\ Len(returns) < N) =>
          /\ quits = <<>>
          /\ rx_alive
          /\ result = "none"

C10_Witness ==
    /\ result = "MountError"
    /\ N = MaxEntries
    /\ mounts_left = 0
    /\ \E i \in Dispatched : ~IsErr(i)
    /\ errors # <<>>

\* C11: with N >= 1 entries, handle_user_mounts has not returned while a
\* dispatched entry has not completed; no event is consumed before all N
\* entries are dispatched; and when the provider fires the completion handler
\* of every dispatched mount, handle_user_mounts eventually returns.
C11_BlocksUntilAllComplete ==
    /\ [](N >= 1 =>
            /\ Returned => (Len(ops) = N /\ \A i \in Dispatched : Completed(i))
            /\ events # <<>> => Len(ops) = N)
    /\ (pc = "dispatch") ~> Returned

C11_Witness ==
    /\ Returned
    /\ N = MaxEntries
    /\ Len(ops) = N
    /\ \A i \in Dispatched : Completed(i)
    /\ Len(events) = N

\* the messages published for operation i: received or still in the channel
PublishedFor(i) ==
    LET all == events \o channel IN {k \in 1..Len(all) : all[k].op = i}

\* the event the completion of operation i is to publish
EventOf(i) ==
    [path |-> ops[i].mount_path,
     status |-> IF ops[i].completion.tag = "Ok"
                THEN [tag |-> "Ok", val |-> "Done"]
                ELSE [tag |-> "Err", val |-> ops[i].completion.val],
     op |-> i]

\* C12: every dispatched entry publishes no event before the provider
\* completes it and exactly one from then on, with the entry's mount_path and
\* Done or the provider's error, never Asked; and when the provider fires
\* every completion handler, every entry's event is eventually published.
C12_OneEventPerEntry ==
    /\ [](\A i \in Dispatched :
            LET all == events \o channel IN
            /\ Cardinality(PublishedFor(i)) = (IF Completed(i) THEN 1 ELSE 0)
            /\ \A k \in PublishedFor(i) :
                  all[k] = EventOf(i) /\ all[k].status.val # "Asked")
    /\ (pc = "dispatch") ~>
          (Len(ops) = N /\ \A i \in Dispatched : Cardinality(PublishedFor(i)) = 1)

C12_Witness ==
    /\ Len(ops) = MaxEntries
    /\ \A i \in Dispatched : Cardinality(PublishedFor(i)) = 1
    /\ \E i \in Dispatched : (events \o channel)[CHOOSE k \in PublishedFor(i) : TRUE].status.tag = "Err"
    /\ \E i \in Dispatched : (events \o channel)[CHOOSE k \in PublishedFor(i) : TRUE].status.val = "Done"

\* the received events that carry an error, in the order of their arrival
ErrEvents == SelectSeq(events, LAMBDA e : e.status.tag = "Err")

\* C13: when the loop has been quit, the N received events come from the N
\* dispatched entries, one each, and the error list is, in the order of
\* arrival, one record per entry whose completion was an error, with that
\* entry's mount_path and error; the other entries have no record.
C13_ErrorListMatchesFailures ==
    (N >= 1 /\ quits # <<>>) =>
        /\ Len(events) = N
        /\ {events[k].op : k \in 1..Len(events)} = 1..N
        /\ Len(errors) = Cardinality({i \in Dispatched : IsErr(i)})
        /\ Len(errors) = Len(ErrEvents)
        /\ \A k \in 1..Len(ErrEvents) :
              /\ IsErr(ErrEvents[k].op)
              /\ errors[k] = [path |-> ops[ErrEvents[k].op].mount_path,
                              error |-> ops[ErrEvents[k].op].completion.val]

C13_Witness ==
    /\ quits # <<>>
    /\ N = MaxEntries
    /\ Len(errors) = 2
    /\ errors[1].path # errors[2].path
    /\ errors[1].error # errors[2].error
    /\ ErrEvents[1].op > ErrEvents[2].op

\* user_mount_cb has just processed a message whose status is Ok(Asked)
AskedProcessed ==
    /\ channel # <<>>
    /\ Head(channel).status = [tag |-> "Ok", val |-> "Asked"]
    /\ events' = Append(events, Head(channel))

\* C14: processing an event whose status is Asked leaves the error list
\* unchanged, decrements the countdown by exactly one and quits the loop
\* exactly when it was the last; and a run whose events are only Done or
\* Asked returns Ok.
C14_AskedIsNotEscalated ==
    /\ [][AskedProcessed =>
            /\ errors' = errors
            /\ mounts_left' = mounts_left - 1
            /\ (quits' # quits) = (mounts_left = 1)]_vars
    /\ []((Returned /\ \A k \in 1..Len(events) : events[k].status.tag = "Ok")
            => (errors = <<>> /\ result = "Ok"))

C14_Witness ==
    /\ Returned
    /\ Len(events) = MaxEvents
    /\ events[Len(events)].status.val = "Asked"
    /\ \E k \in 1..Len(events) : events[k].status.val = "Done"
    /\ \A k \in 1..Len(events) : events[k].status.tag = "Ok"
    /\ mounts_left = 0
    /\ quits # <<>>
    /\ result = "Ok"

\* the error record of a failed entry
RecordOf(i) == [path |-> ops[i].mount_path, error |-> ops[i].completion.val]

\* the kinds of the errors among the outcomes of the entries
OutcomeKinds == {ops[i].completion.val : i \in {j \in Dispatched : IsErr(j)}}

\* the result as a function of the outcomes of the entries alone
OutcomeResult ==
    IF OutcomeKinds = {} \/ OutcomeKinds # {"AlreadyMounted"} THEN "Ok" ELSE "MountError"

\* C15: the result and the error records are determined by the outcomes of
\* the entries, whatever the order in which the completions arrive: the
\* result is a function of the kinds of the outcomes, and every record occurs
\* as many times as there are failed entries with that path and error.
C15_OrderIndependent ==
    (Returned /\ N >= 1) =>
        /\ result = OutcomeResult
        /\ \A i \in Dispatched : IsErr(i) =>
              Cardinality({k \in 1..Len(errors) : errors[k] = RecordOf(i)})
                  = Cardinality({j \in Dispatched : IsErr(j) /\ RecordOf(j) = RecordOf(i)})
        /\ \A k \in 1..Len(errors) : \E i \in Dispatched : IsErr(i) /\ errors[k] = RecordOf(i)

C15_Witness ==
    /\ Returned
    /\ N = MaxEntries
    /\ Cardinality(OutcomeKinds) = 2
    /\ events[1].op > events[2].op
    /\ events[1].status.val = "AlreadyMounted"
    /\ result = OutcomeResult

\* C16: every MountEntry parse_entries produces has a non-empty mount_path,
\* for every file content.
C16_MountPathNonEmpty ==
    pc # "start" => \A k \in 1..Len(parsed_entries) : parsed_entries[k].mount_path # <<>>

\* the "state" data of operation i right after its k-th challenge
StateAfter(i, k) ==
    IF k < Len(ops[i].challenges) THEN ops[i].challenges[k + 1].state_before ELSE ops[i].state

\* C17: on an operation of an anonymous entry, a challenge without the
\* anonymous-supported flag is answered "handled" if KRB5CCNAME is present
\* and "aborted" if it is absent, and leaves the state as it was; the first
\* anonymous-supported challenge after it is still answered "handled".
C17_AnonymousEntryCredentialedPath ==
    \A i \in Dispatched :
        ops[i].is_anonymous =>
            LET cs == ops[i].challenges IN
            \A k \in 1..Len(cs) :
                "ANONYMOUS_SUPPORTED" \notin cs[k].flags =>
                    /\ cs[k].replies = (IF env.present THEN <<"Handled">> ELSE <<"Aborted">>)
                    /\ StateAfter(i, k) = cs[k].state_before
                    /\ \A j \in (k + 1)..Len(cs) :
                          (/\ cs[k].state_before = "None"
                           /\ j \in AnonymousChallenges(i)
                           /\ \A h \in k..(j - 1) : h \notin AnonymousChallenges(i))
                          => cs[j].replies = <<"Handled">>

\* a challenge has just been answered on operation i
ChallengeOn(i) ==
    /\ i \in Dispatched
    /\ Len(ops') = Len(ops)
    /\ Len(ops'[i].challenges) = Len(ops[i].challenges) + 1

\* C18: a challenge on one operation leaves every other operation as it was,
\* and the first anonymous-supported challenge of every anonymous operation
\* finds its state unset and is answered "handled", whatever challenges the
\* other operations have received.
C18_StatePerOperation ==
    /\ [][\A i \in 1..Len(ops) :
             ChallengeOn(i) => \A j \in 1..Len(ops) : j # i => ops'[j] = ops[j]]_vars
    /\ [](\A i \in Dispatched :
             ops[i].is_anonymous =>
                 \A k \in AnonymousChallenges(i) :
                     (\A h \in 1..(k - 1) : h \notin AnonymousChallenges(i)) =>
                         /\ ops[i].challenges[k].state_before = "None"
                         /\ ops[i].challenges[k].replies = <<"Handled">>)

C18_Witness ==
    \E i, j \in Dispatched :
        /\ i # j
        /\ ops[i].is_anonymous /\ ops[j].is_anonymous
        /\ Len(ops[i].challenges) = 2
        /\ AnonymousChallenges(i) = {1, 2}
        /\ ops[i].challenges[2].replies = <<"Aborted">>
        /\ Len(ops[j].challenges) = 1
        /\ AnonymousChallenges(j) = {1}
        /\ ops[j].challenges[1].replies = <<"Handled">>

\* C19: in the completion loop the countdown is N minus the number of events
\* processed, within 0..N, the error list is no longer than the number of
\* events processed, and the countdown changes only by the decrement of one
\* in a step of user_mount_cb.
C19_CountdownInvariant ==
    /\ []((N >= 1 /\ pc # "start") =>
            /\ mounts_left = N - Len(events)
            /\ mounts_left \in 0..N
            /\ Len(errors) <= Len(events))
    /\ [][(pc # "start" /\ mounts_left' # mounts_left) =>
             /\ mounts_left > 0
             /\ mounts_left' = mounts_left - 1
             /\ Len(events') = Len(events) + 1]_vars

C19_Witness ==
    /\ pc = "run"
    /\ N = MaxEntries
    /\ Len(events) = 2
    /\ mounts_left = N - 2
    /\ Len(errors) = 1

\* C20: every invocation of ask_password_cb issues exactly one reply, and
\* that reply is "handled" or "aborted", whatever the entry, the flags, the
\* environment and the state of the operation.
C20_ExactlyOneReply ==
    \A i \in Dispatched :
        \A k \in 1..Len(ops[i].challenges) :
            /\ Len(ops[i].challenges[k].replies) = 1
            /\ ops[i].challenges[k].replies[1] \in {"Handled", "Aborted"}
            /\ ops[i].state \in {"None", "Asked"}

C20_Witness ==
    /\ TotalChallenges = MaxChallenges
    /\ \E i \in Dispatched :
          /\ ops[i].is_anonymous
          /\ Len(ops[i].challenges) >= 2
          /\ ops[i].challenges[1].state_before = "None"
          /\ ops[i].challenges[2].state_before = "Asked"
          /\ "ANONYMOUS_SUPPORTED" \in ops[i].challenges[2].flags
    /\ \E i \in Dispatched :
          ~ops[i].is_anonymous /\ Len(ops[i].challenges) >= 1
====
